---- MODULE Spec2Model ----
(***************************************************************************)
(* State-machine model of core/train.py (train_net) of Pix2Vox: set-up,   *)
(* the epoch/batch loop, validation, the checkpoint decision, and a later  *)
(* invocation of train_net that resumes from a checkpoint file.            *)
(*                                                                         *)
(* Abstractions: the weights of a network are identified by the number of  *)
(* optimizer updates applied since initialisation (same data, same seeds); *)
(* validation scores are the IoU values 0 and 1; loss values are not      *)
(* modelled, only which batch produced them.                               *)
(***************************************************************************)
EXTENDS Integers, Sequences, FiniteSets, TLC

\* ---------------------------------------------------------------- bounds
MaxEpochs  == 4       \* largest cfg.TRAIN.NUM_EPOCHES explored
MaxSamples == 4       \* largest training set explored

Policies   == {"adam", "sgd", "rmsprop"}   \* cfg.TRAIN.POLICY
Scores     == {0, 1}                       \* IoU scores returned by test_net
SaveFreqs  == {1, 2, 3}                    \* cfg.TRAIN.SAVE_FREQ
BatchSizes == {2}                          \* cfg.CONST.BATCH_SIZE
ViewCounts == {2}                          \* cfg.CONST.N_VIEWS
VisFreqs   == {2}                          \* cfg.TRAIN.VISUALIZATION_FREQ
Runs       == {1, 2}                       \* invocations of train_net in one behaviour

VARIABLES
    cfg,                        \* the configuration of this invocation
    dataset_size,               \* samples in the training portion
    val_score,                  \* what test_net returns for each epoch index
    run,                        \* which invocation of train_net this is
    disk,                       \* checkpoint files of all invocations: path -> record
    pc,                         \* position in train_net
    error,                      \* the exception that ended train_net, if any
    n_views,
    datasets,                   \* the n_views each get_dataset call was given
    dirs,                       \* directories created by this invocation
    train_writer, val_writer,   \* "none" | "open" | "closed"
    generator, image_encoder,
    generator_solver, image_encoder_solver,
    generator_lr_scheduler, image_encoder_lr_scheduler,
    init_epoch, best_iou, best_epoch,
    epoch_idx, n_batches, batch_idx,
    epoch_image_encoder_loss,
    n_itr,
    iou,
    train_log,                  \* calls of train_writer.add_scalar / add_image
    val_log,                    \* calls of test_net (its epoch argument)
    saved,                      \* file names given to save_checkpoints by this invocation
    first_run_final             \* state in which the first invocation ended

vars == <<cfg, dataset_size, val_score, run, disk, pc, error, n_views, datasets, dirs,
          train_writer, val_writer, generator, image_encoder,
          generator_solver, image_encoder_solver,
          generator_lr_scheduler, image_encoder_lr_scheduler,
          init_epoch, best_iou, best_epoch, epoch_idx, n_batches, batch_idx,
          epoch_image_encoder_loss, n_itr, iou, train_log, val_log, saved,
          first_run_final>>

\* ------------------------------------------------------------ pure parts

NoWeights == [kind |-> "none", digits |-> <<>>]

\* Decimal digits of n, most significant first.
RECURSIVE Digits(_)
Digits(n) == IF n < 10 THEN <<n>> ELSE Append(Digits(n \div 10), n % 10)

RECURSIVE ZeroPad(_, _)
ZeroPad(ds, width) == IF Len(ds) >= width THEN ds ELSE ZeroPad(<<0>> \o ds, width)

\* variant: the name does not embed the epoch number
PeriodicFileNameFixed(n) == [kind |-> "ckpt-epoch", digits |-> ZeroPad(<<>>, 4)]

\* 'ckpt-epoch-%04d.pth.tar' % n
PeriodicFileName(n) == [kind |-> "ckpt-epoch", digits |-> ZeroPad(Digits(n), 4)]

\* 'best-ckpt.pth.tar'
BestFileName == [kind |-> "best-ckpt", digits |-> <<>>]

\* os.path.join(ckpt_dir, name): ckpt_dir embeds the start time of the invocation
CkptPath(r, name) == [dir |-> r, name |-> name]

\* variant: the draw is used as it comes, without the + 1
ViewChoicesFromZero(c) ==
    IF c.RANDOM_NUM_VIEWS THEN 0..(c.N_VIEWS - 1) ELSE {c.N_VIEWS}

\* np.random.randint(N_VIEWS) + 1 if RANDOM_NUM_VIEWS else N_VIEWS: the values
\* n_views can take
ViewChoices(c) ==
    IF c.RANDOM_NUM_VIEWS THEN 1..c.N_VIEWS ELSE {c.N_VIEWS}

\* len(train_data_loader): DataLoader without drop_last
LoaderLen(size, bs) == (size + bs - 1) \div bs

\* len(voxels) of the batch with index i
BatchSamples(i, size, bs) == IF (i + 1) * bs <= size THEN bs ELSE size - i * bs

\* variant: only oversized batches are skipped, a short batch is trained on
SkipsOversizedOnly(n_samples, bs) == n_samples > bs

\* the guard of the `continue`
SkipsBatch(n_samples, bs) == ~(n_samples = bs)

\* variant: the epoch index is added, not multiplied by the loader length
StepKeyWithoutLoaderLen(e, nb, b) == e + b

\* epoch_idx * n_batches + batch_idx
StepKey(e, nb, b) == e * nb + b

\* variant: the loop stops one epoch early
LoopStopsEarly(e, total) == e + 1 < total

\* range(init_epoch, cfg.TRAIN.NUM_EPOCHES): whether index e is in the range
LoopContinues(e, total) == e < total

\* variant: the 0-based loop index is tested, without the + 1
IsPeriodicOnLoopIndex(e, freq) == e % freq = 0

\* (epoch_idx + 1) % cfg.TRAIN.SAVE_FREQ == 0
IsPeriodic(e, freq) == (e + 1) % freq = 0

\* variant: two independent ifs, the best branch also taken on a periodic epoch
SaveDecisionBothBranches(e, freq, score, best) ==
    (IF IsPeriodic(e, freq) THEN {"periodic"} ELSE {})
        \cup (IF score > best THEN {"best"} ELSE {})

\* variant: the best branch taken whenever the score differs from best_iou
SaveDecisionAnyChange(e, freq, score, best) ==
    IF IsPeriodic(e, freq) THEN {"periodic"}
    ELSE IF score # best THEN {"best"}
    ELSE {}

\* variant: a score equal to best_iou also takes the best branch
SaveDecisionOnTie(e, freq, score, best) ==
    IF IsPeriodic(e, freq) THEN {"periodic"}
    ELSE IF score >= best THEN {"best"}
    ELSE {}

\* the if / elif of "Save weights to file": which files the epoch writes
SaveDecision(e, freq, score, best) ==
    IF IsPeriodic(e, freq) THEN {"periodic"}
    ELSE IF score > best THEN {"best"}
    ELSE {}

\* variant: best_epoch keeps the 0-based loop index
BestEpochIsLoopIndex(e) == e

\* best_epoch = epoch_idx + 1
BestEpochOf(e) == e + 1

\* variant: the record names the epoch after the next one
SavedEpochSkipsOne(e) == e + 2

\* variant: the record keeps the index of the epoch just finished
SavedEpochIsLoopIndex(e) == e

\* the epoch_idx argument of save_checkpoints: epoch_idx + 1
SavedEpochIdx(e) == e + 1

\* the dictionary written by save_checkpoints and read back on resume
Record(e, g, gs, ie, ies, bi, be) ==
    [epoch_idx                       |-> e,
     best_iou                        |-> bi,
     best_epoch                      |-> be,
     generator_state_dict            |-> g.updates,
     generator_solver_state_dict     |-> gs,
     image_encoder_state_dict        |-> ie.updates,
     image_encoder_solver_state_dict |-> ies]

\* f with path p bound to record r (a write creates or replaces the file)
WriteFile(f, p, r) == [q \in (DOMAIN f) \cup {p} |-> IF q = p THEN r ELSE f[q]]

NoModel     == [made |-> FALSE, inits |-> 0, updates |-> 0, training |-> FALSE]
NoSolver    == [kind |-> "None", steps |-> 0, lr_decays |-> 0]
NoScheduler == [made |-> FALSE, steps |-> 0]

\* variant: the generator's optimizer is stepped only when the batch index is even
StepsEveryOtherBatch(solver, b) == [solver EXCEPT !.steps = @ + ((b + 1) % 2)]

\* generator_solver.step(): one step on every processed batch, whatever its index
GeneratorSolverStep(solver, b) == [solver EXCEPT !.steps = @ + 1]

\* image_encoder_solver.step()
ImageEncoderSolverStep(solver, b) == [solver EXCEPT !.steps = @ + 1]

\* variant: the weight initialisation is left out when resuming
InitWeightsUnlessResuming(c) == ~(c.WEIGHTS # NoWeights /\ c.RESUME_TRAIN)

\* whether the weight initialisation is applied during set-up
AppliesInitWeights(c) == TRUE

\* the state the resume property compares
SessionState ==
    [generator            |-> generator.updates,
     image_encoder        |-> image_encoder.updates,
     generator_solver     |-> generator_solver,
     image_encoder_solver |-> image_encoder_solver,
     best_iou             |-> best_iou,
     best_epoch           |-> best_epoch]

\* variant: a configured weights path is enough, the resume flag is not read
ResumesOnWeightsAlone == cfg.WEIGHTS # NoWeights

\* 'WEIGHTS' in cfg.CONST and cfg.TRAIN.RESUME_TRAIN
Resuming == cfg.WEIGHTS # NoWeights /\ cfg.RESUME_TRAIN

\* ------------------------------------------------------------------ Init

Configs ==
    [POLICY             : Policies,
     BATCH_SIZE         : BatchSizes,
     N_VIEWS            : ViewCounts,
     RANDOM_NUM_VIEWS   : BOOLEAN,
     NUM_EPOCHES        : 0..MaxEpochs,
     SAVE_FREQ          : SaveFreqs,
     VISUALIZATION_FREQ : VisFreqs,
     RESUME_TRAIN       : BOOLEAN,
     WEIGHTS            : {NoWeights}]

Fresh ==
    /\ pc = "data"
    /\ error = "none"
    /\ n_views = 0
    /\ datasets = [train |-> 0, val |-> 0]
    /\ dirs = {}
    /\ train_writer = "none"
    /\ val_writer = "none"
    /\ generator = NoModel
    /\ image_encoder = NoModel
    /\ generator_solver = NoSolver
    /\ image_encoder_solver = NoSolver
    /\ generator_lr_scheduler = NoScheduler
    /\ image_encoder_lr_scheduler = NoScheduler
    /\ init_epoch = 0
    /\ best_iou = -1
    /\ best_epoch = -1
    /\ epoch_idx = 0
    /\ n_batches = 0
    /\ batch_idx = 0
    /\ epoch_image_encoder_loss = <<>>
    /\ n_itr = -1
    /\ iou = -1
    /\ train_log = <<>>
    /\ val_log = <<>>
    /\ saved = <<>>

Init ==
    /\ cfg \in Configs
    /\ dataset_size \in 1..MaxSamples
    /\ val_score \in [0..(cfg.NUM_EPOCHES - 1) -> Scores]
    /\ run = 1
    /\ disk = <<>>
    /\ first_run_final = <<>>
    /\ Fresh

\* --------------------------------------------------------------- set-up

\* lines 47-57
SetUpDataLoader ==
    /\ pc = "data"
    /\ \E v \in ViewChoices(cfg) :
          /\ n_views' = v
          /\ datasets' = [train |-> v, val |-> v]
    /\ pc' = "writer"
    /\ UNCHANGED <<cfg, dataset_size, val_score, run, disk, error, dirs,
                   train_writer, val_writer, generator, image_encoder,
                   generator_solver, image_encoder_solver,
                   generator_lr_scheduler, image_encoder_lr_scheduler,
                   init_epoch, best_iou, best_epoch, epoch_idx, n_batches,
                   batch_idx, epoch_image_encoder_loss, n_itr, iou, train_log,
                   val_log, saved, first_run_final>>

\* lines 59-65: a SummaryWriter creates its log directory when constructed
SetUpSummaryWriter ==
    /\ pc = "writer"
    /\ dirs' = dirs \cup {"logs/train", "logs/test"}
    /\ train_writer' = "open"
    /\ val_writer' = "open"
    /\ pc' = "networks"
    /\ UNCHANGED <<cfg, dataset_size, val_score, run, disk, error, n_views, datasets,
                   generator, image_encoder,
                   generator_solver, image_encoder_solver,
                   generator_lr_scheduler, image_encoder_lr_scheduler,
                   init_epoch, best_iou, best_epoch, epoch_idx, n_batches,
                   batch_idx, epoch_image_encoder_loss, n_itr, iou, train_log,
                   val_log, saved, first_run_final>>

\* lines 67-73
SetUpNetworks ==
    /\ pc = "networks"
    /\ LET k == IF AppliesInitWeights(cfg) THEN 1 ELSE 0
       IN  /\ generator' = [NoModel EXCEPT !.made = TRUE, !.inits = k]
           /\ image_encoder' = [NoModel EXCEPT !.made = TRUE, !.inits = k]
    /\ pc' = "solver"
    /\ UNCHANGED <<cfg, dataset_size, val_score, run, disk, error, n_views, datasets,
                   dirs, train_writer, val_writer,
                   generator_solver, image_encoder_solver,
                   generator_lr_scheduler, image_encoder_lr_scheduler,
                   init_epoch, best_iou, best_epoch, epoch_idx, n_batches,
                   batch_idx, epoch_image_encoder_loss, n_itr, iou, train_log,
                   val_log, saved, first_run_final>>


\* lines 75-80 and 87-89: policy 'adam'
SetUpSolverAdam ==
    /\ pc = "solver"
    /\ cfg.POLICY = "adam"
    /\ generator_solver' = [NoSolver EXCEPT !.kind = "adam"]
    /\ image_encoder_solver' = [NoSolver EXCEPT !.kind = "adam"]
    /\ generator_lr_scheduler' = [NoScheduler EXCEPT !.made = TRUE]
    /\ image_encoder_lr_scheduler' = [NoScheduler EXCEPT !.made = TRUE]
    /\ pc' = "load"
    /\ UNCHANGED <<cfg, dataset_size, val_score, run, disk, error, n_views, datasets,
                   dirs, train_writer, val_writer, generator, image_encoder,
                   init_epoch, best_iou, best_epoch, epoch_idx, n_batches,
                   batch_idx, epoch_image_encoder_loss, n_itr, iou, train_log,
                   val_log, saved, first_run_final>>

\* lines 81-83: policy 'sgd'. Line 82 builds the generator's SGD; line 83 hands
\* torch.optim.SGD the keyword betas, which it does not take: TypeError.
SetUpSolverSGD ==
    /\ pc = "solver"
    /\ cfg.POLICY = "sgd"
    /\ generator_solver' = [NoSolver EXCEPT !.kind = "sgd"]
    /\ error' = "TypeError"
    /\ pc' = "fatal"
    /\ UNCHANGED <<cfg, dataset_size, val_score, run, disk, n_views, datasets,
                   dirs, train_writer, val_writer, generator, image_encoder,
                   image_encoder_solver,
                   generator_lr_scheduler, image_encoder_lr_scheduler,
                   init_epoch, best_iou, best_epoch, epoch_idx, n_batches,
                   batch_idx, epoch_image_encoder_loss, n_itr, iou, train_log,
                   val_log, saved, first_run_final>>

\* lines 84-85: any other policy
SetUpSolverUnknown ==
    /\ pc = "solver"
    /\ cfg.POLICY \notin {"adam", "sgd"}
    /\ error' = "UnknownOptimizer"
    /\ pc' = "fatal"
    /\ UNCHANGED <<cfg, dataset_size, val_score, run, disk, n_views, datasets,
                   dirs, train_writer, val_writer, generator, image_encoder,
                   generator_solver, image_encoder_solver,
                   generator_lr_scheduler, image_encoder_lr_scheduler,
                   init_epoch, best_iou, best_epoch, epoch_idx, n_batches,
                   batch_idx, epoch_image_encoder_loss, n_itr, iou, train_log,
                   val_log, saved, first_run_final>>

\* lines 98-115, resuming: the record is read and restored
LoadPretrained ==
    /\ pc = "load"
    /\ Resuming
    /\ LET checkpoint == disk[cfg.WEIGHTS]
       IN  /\ init_epoch' = checkpoint.epoch_idx
           /\ best_iou' = checkpoint.best_iou
           /\ best_epoch' = checkpoint.best_epoch
           /\ generator' = [generator EXCEPT !.updates = checkpoint.generator_state_dict]
           /\ generator_solver' = checkpoint.generator_solver_state_dict
           /\ image_encoder' =
                 [image_encoder EXCEPT !.updates = checkpoint.image_encoder_state_dict]
           /\ image_encoder_solver' = checkpoint.image_encoder_solver_state_dict
           /\ epoch_idx' = checkpoint.epoch_idx
    /\ pc' = "epoch"
    /\ UNCHANGED <<cfg, dataset_size, val_score, run, disk, error, n_views, datasets,
                   dirs, train_writer, val_writer,
                   generator_lr_scheduler, image_encoder_lr_scheduler,
                   n_batches, batch_idx, epoch_image_encoder_loss, n_itr, iou,
                   train_log, val_log, saved, first_run_final>>

\* lines 98-102, not resuming: the defaults stay
StartFromScratch ==
    /\ pc = "load"
    /\ ~Resuming
    /\ init_epoch' = 0
    /\ best_iou' = -1
    /\ best_epoch' = -1
    /\ epoch_idx' = 0
    /\ pc' = "epoch"
    /\ UNCHANGED <<cfg, dataset_size, val_score, run, disk, error, n_views, datasets,
                   dirs, train_writer, val_writer, generator, image_encoder,
                   generator_solver, image_encoder_solver,
                   generator_lr_scheduler, image_encoder_lr_scheduler,
                   n_batches, batch_idx, epoch_image_encoder_loss, n_itr, iou,
                   train_log, val_log, saved, first_run_final>>

\* ----------------------------------------------------------- the loop

\* lines 118-125
EpochBegin ==
    /\ pc = "epoch"
    /\ LoopContinues(epoch_idx, cfg.NUM_EPOCHES)
    /\ n_batches' = LoaderLen(dataset_size, cfg.BATCH_SIZE)
    /\ epoch_image_encoder_loss' = <<>>
    /\ batch_idx' = 0
    /\ pc' = "batch"
    /\ UNCHANGED <<cfg, dataset_size, val_score, run, disk, error, n_views, datasets,
                   dirs, train_writer, val_writer, generator, image_encoder,
                   generator_solver, image_encoder_solver,
                   generator_lr_scheduler, image_encoder_lr_scheduler,
                   init_epoch, best_iou, best_epoch, epoch_idx, n_itr, iou,
                   train_log, val_log, saved, first_run_final>>

\* lines 127-130: a batch of another size than BATCH_SIZE
SkipBatch ==
    /\ pc = "batch"
    /\ batch_idx < n_batches
    /\ SkipsBatch(BatchSamples(batch_idx, dataset_size, cfg.BATCH_SIZE), cfg.BATCH_SIZE)
    /\ batch_idx' = batch_idx + 1
    /\ UNCHANGED <<cfg, dataset_size, val_score, run, disk, pc, error, n_views, datasets,
                   dirs, train_writer, val_writer, generator, image_encoder,
                   generator_solver, image_encoder_solver,
                   generator_lr_scheduler, image_encoder_lr_scheduler,
                   init_epoch, best_iou, best_epoch, epoch_idx, n_batches,
                   epoch_image_encoder_loss, n_itr, iou, train_log, val_log,
                   saved, first_run_final>>

\* lines 127-172: a batch of BATCH_SIZE samples
TrainBatch ==
    /\ pc = "batch"
    /\ batch_idx < n_batches
    /\ ~SkipsBatch(BatchSamples(batch_idx, dataset_size, cfg.BATCH_SIZE), cfg.BATCH_SIZE)
    /\ generator' = [generator EXCEPT !.training = TRUE, !.updates = @ + 1]
    /\ image_encoder' = [image_encoder EXCEPT !.training = TRUE, !.updates = @ + 1]
    /\ generator_solver' = GeneratorSolverStep(generator_solver, batch_idx)
    /\ image_encoder_solver' = ImageEncoderSolverStep(image_encoder_solver, batch_idx)
    /\ epoch_image_encoder_loss' = Append(epoch_image_encoder_loss, batch_idx)
    /\ LET k == StepKey(epoch_idx, n_batches, batch_idx)
           scalar == Append(train_log, <<"Generator/ImageEncoderLoss", k>>)
       IN  /\ n_itr' = k
           /\ IF k % cfg.VISUALIZATION_FREQ = 0
              THEN /\ train_log' = Append(scalar, <<"Reconstructed Voxels", k>>)
                   /\ dirs' = dirs \cup {"images/train"}
              ELSE /\ train_log' = scalar
                   /\ dirs' = dirs
    /\ batch_idx' = batch_idx + 1
    /\ UNCHANGED <<cfg, dataset_size, val_score, run, disk, pc, error, n_views, datasets,
                   train_writer, val_writer,
                   generator_lr_scheduler, image_encoder_lr_scheduler,
                   init_epoch, best_iou, best_epoch, epoch_idx, n_batches,
                   iou, val_log, saved, first_run_final>>

\* lines 174-179: after the last batch; neither lr scheduler is stepped
EpochMeanLoss ==
    /\ pc = "batch"
    /\ batch_idx = n_batches
    /\ train_log' = Append(train_log, <<"Generator/MeanLoss", epoch_idx + 1>>)
    /\ pc' = "validate"
    /\ UNCHANGED <<cfg, dataset_size, val_score, run, disk, error, n_views, datasets,
                   dirs, train_writer, val_writer, generator, image_encoder,
                   generator_solver, image_encoder_solver,
                   generator_lr_scheduler, image_encoder_lr_scheduler,
                   init_epoch, best_iou, best_epoch, epoch_idx, n_batches,
                   batch_idx, epoch_image_encoder_loss, n_itr, iou, val_log,
                   saved, first_run_final>>

\* variant: validation is left out when no batch of the epoch was processed
ValidateOnlyAfterTraining ==
    /\ pc = "validate"
    /\ IF epoch_image_encoder_loss = <<>>
       THEN iou' = iou /\ val_log' = val_log
       ELSE iou' = val_score[epoch_idx] /\ val_log' = Append(val_log, epoch_idx + 1)
    /\ pc' = "save"
    /\ UNCHANGED <<cfg, dataset_size, val_score, run, disk, error, n_views, datasets,
                   dirs, train_writer, val_writer, generator, image_encoder,
                   generator_solver, image_encoder_solver,
                   generator_lr_scheduler, image_encoder_lr_scheduler,
                   init_epoch, best_iou, best_epoch, epoch_idx, n_batches,
                   batch_idx, epoch_image_encoder_loss, n_itr, train_log,
                   saved, first_run_final>>

\* lines 181-182
Validate ==
    /\ pc = "validate"
    /\ iou' = val_score[epoch_idx]
    /\ val_log' = Append(val_log, epoch_idx + 1)
    /\ pc' = "save"
    /\ UNCHANGED <<cfg, dataset_size, val_score, run, disk, error, n_views, datasets,
                   dirs, train_writer, val_writer, generator, image_encoder,
                   generator_solver, image_encoder_solver,
                   generator_lr_scheduler, image_encoder_lr_scheduler,
                   init_epoch, best_iou, best_epoch, epoch_idx, n_batches,
                   batch_idx, epoch_image_encoder_loss, n_itr, train_log,
                   saved, first_run_final>>

\* lines 184-197, then the loop's next epoch index
SaveWeights ==
    /\ pc = "save"
    /\ LET d  == SaveDecision(epoch_idx, cfg.SAVE_FREQ, iou, best_iou)
           bi == IF "best" \in d THEN iou ELSE best_iou
           be == IF "best" \in d THEN BestEpochOf(epoch_idx) ELSE best_epoch
           pp == CkptPath(run, PeriodicFileName(epoch_idx + 1))
           bp == CkptPath(run, BestFileName)
           pr == Record(SavedEpochIdx(epoch_idx), generator, generator_solver,
                        image_encoder, image_encoder_solver, best_iou, best_epoch)
           br == Record(SavedEpochIdx(epoch_idx), generator, generator_solver,
                        image_encoder, image_encoder_solver, bi, be)
           d1 == IF "periodic" \in d THEN WriteFile(disk, pp, pr) ELSE disk
           s1 == IF "periodic" \in d THEN Append(saved, pp.name) ELSE saved
       IN  /\ best_iou' = bi
           /\ best_epoch' = be
           /\ disk' = IF "best" \in d THEN WriteFile(d1, bp, br) ELSE d1
           /\ saved' = IF "best" \in d THEN Append(s1, bp.name) ELSE s1
           /\ dirs' = IF d # {} THEN dirs \cup {"checkpoints"} ELSE dirs
    /\ epoch_idx' = epoch_idx + 1
    /\ pc' = "epoch"
    /\ UNCHANGED <<cfg, dataset_size, val_score, run, error, n_views, datasets,
                   train_writer, val_writer, generator, image_encoder,
                   generator_solver, image_encoder_solver,
                   generator_lr_scheduler, image_encoder_lr_scheduler,
                   init_epoch, n_batches, batch_idx, epoch_image_encoder_loss,
                   n_itr, iou, train_log, val_log, first_run_final>>

\* lines 199-201, when the loop is over
Close ==
    /\ pc = "epoch"
    /\ ~LoopContinues(epoch_idx, cfg.NUM_EPOCHES)
    /\ train_writer' = "closed"
    /\ val_writer' = "closed"
    /\ first_run_final' = IF run = 1 THEN SessionState ELSE first_run_final
    /\ pc' = "done"
    /\ UNCHANGED <<cfg, dataset_size, val_score, run, disk, error, n_views, datasets,
                   dirs, generator, image_encoder,
                   generator_solver, image_encoder_solver,
                   generator_lr_scheduler, image_encoder_lr_scheduler,
                   init_epoch, best_iou, best_epoch, epoch_idx, n_batches,
                   batch_idx, epoch_image_encoder_loss, n_itr, iou, train_log,
                   val_log, saved>>

\* train_net is invoked again, on the same data, with cfg.CONST.WEIGHTS naming a
\* checkpoint file of the finished invocation
Relaunch ==
    /\ pc = "done"
    /\ run + 1 \in Runs
    /\ \E p \in DOMAIN disk, b \in BOOLEAN :
          cfg' = [cfg EXCEPT !.WEIGHTS = p, !.RESUME_TRAIN = b]
    /\ run' = run + 1
    /\ pc' = "data"
    /\ error' = "none"
    /\ n_views' = 0
    /\ datasets' = [train |-> 0, val |-> 0]
    /\ dirs' = {}
    /\ train_writer' = "none"
    /\ val_writer' = "none"
    /\ generator' = NoModel
    /\ image_encoder' = NoModel
    /\ generator_solver' = NoSolver
    /\ image_encoder_solver' = NoSolver
    /\ generator_lr_scheduler' = NoScheduler
    /\ image_encoder_lr_scheduler' = NoScheduler
    /\ init_epoch' = 0
    /\ best_iou' = -1
    /\ best_epoch' = -1
    /\ epoch_idx' = 0
    /\ n_batches' = 0
    /\ batch_idx' = 0
    /\ epoch_image_encoder_loss' = <<>>
    /\ n_itr' = -1
    /\ iou' = -1
    /\ train_log' = <<>>
    /\ val_log' = <<>>
    /\ saved' = <<>>
    /\ UNCHANGED <<dataset_size, val_score, disk, first_run_final>>

Next ==
    \/ SetUpDataLoader
    \/ SetUpSummaryWriter
    \/ SetUpNetworks
    \/ SetUpSolverAdam
    \/ SetUpSolverSGD
    \/ SetUpSolverUnknown
    \/ LoadPretrained
    \/ StartFromScratch
    \/ EpochBegin
    \/ SkipBatch
    \/ TrainBatch
    \/ EpochMeanLoss
    \/ Validate
    \/ SaveWeights
    \/ Close
    \/ Relaunch

Spec == Init /\ [][Next]_vars
\* ------------------------------------------------------------ properties

\* the epoch the loop has just finished, in a state at the loop head
JustFinishedEpoch == pc = "epoch" /\ epoch_idx > init_epoch

\* C1: on a periodic epoch whose score beats best_iou the checkpoint decision
\* writes the periodic file only: best_iou and best_epoch keep their values,
\* the best file is not touched, and no step writes more than one record.
Thm_C1 ==
    [][ /\ (pc = "save" /\ IsPeriodic(epoch_idx, cfg.SAVE_FREQ) /\ iou > best_iou)
            => /\ best_iou' = best_iou
               /\ best_epoch' = best_epoch
               /\ saved' = Append(saved, PeriodicFileName(epoch_idx + 1))
               /\ LET bp == CkptPath(run, BestFileName)
                  IN  IF bp \in DOMAIN disk
                      THEN bp \in DOMAIN disk' /\ disk'[bp] = disk[bp]
                      ELSE bp \notin DOMAIN disk'
        /\ Len(saved') <= Len(saved) + 1
      ]_vars

\* C1 witness: a periodic epoch has just ended with a score above best_iou
Witness_C1 ==
    /\ JustFinishedEpoch
    /\ IsPeriodic(epoch_idx - 1, cfg.SAVE_FREQ)
    /\ iou > best_iou
    /\ best_iou >= 0
    /\ saved # <<>>
    /\ saved[Len(saved)] = PeriodicFileName(epoch_idx)

\* C2: within an invocation of train_net, fresh or resumed, best_iou never
\* decreases: no step leaves it lower than it was.
Thm_C2 == [][run' = run => best_iou' >= best_iou]_vars

\* C2 witness: a resumed invocation has just finished an epoch whose score is
\* below the best_iou it carries
Witness_C2 ==
    /\ Resuming
    /\ JustFinishedEpoch
    /\ ~IsPeriodic(epoch_idx - 1, cfg.SAVE_FREQ)
    /\ iou >= 0
    /\ iou < best_iou

\* C3 as stated: in an invocation that does not resume, best_iou and
\* best_epoch are both -1, or best_epoch is the 0-based loop index of an
\* executed epoch whose validation score is best_iou.
CE_C3 ==
    ~Resuming =>
        \/ best_iou = -1 /\ best_epoch = -1
        \/ /\ best_epoch \in DOMAIN val_score
           /\ best_epoch <= epoch_idx
           /\ val_score[best_epoch] = best_iou

\* C3 amended: in an invocation that does not resume, best_iou and best_epoch
\* are both -1, or best_epoch is the 1-based number (loop index + 1) of an
\* executed epoch whose validation score is best_iou.
Thm_C3 ==
    ~Resuming =>
        \/ best_iou = -1 /\ best_epoch = -1
        \/ /\ best_epoch - 1 \in DOMAIN val_score
           /\ best_epoch - 1 <= epoch_idx
           /\ val_score[best_epoch - 1] = best_iou

\* C3 witness: best_epoch set in a run that does not resume, by an epoch
\* that is not the latest one
Witness_C3 ==
    /\ ~Resuming
    /\ JustFinishedEpoch
    /\ best_epoch >= 1
    /\ best_epoch < epoch_idx

SetUpPositions == {"data", "writer", "networks", "solver"}

\* C4 as stated: when the optimizer policy is neither adam nor sgd, train_net
\* has raised its fatal error with no batch processed and with no directory,
\* writer or other output state created.
CE_C4 ==
    (cfg.POLICY \notin {"adam", "sgd"} /\ pc = "fatal") =>
        /\ error = "UnknownOptimizer"
        /\ generator_solver.steps = 0
        /\ train_log = <<>>
        /\ dirs = {}
        /\ train_writer = "none"
        /\ val_writer = "none"

\* the record a resumed invocation was given
Resumed == disk[cfg.WEIGHTS]

\* C5: an invocation resumed from a checkpoint written at epoch E of a run on
\* the same data and validation scores ends in the state (weights, optimizer
\* states with their learning rates, best_iou, best_epoch) in which the
\* uninterrupted run over all the epochs ended.
Thm_C5 == (pc = "done" /\ run > 1 /\ Resuming) => SessionState = first_run_final

\* C5 witness: a resumed invocation has ended after training and after
\* replacing the best score of the record it started from
Witness_C5 ==
    /\ pc = "done"
    /\ run > 1
    /\ Resuming
    /\ init_epoch >= 1
    /\ init_epoch < cfg.NUM_EPOCHES
    /\ generator.updates > Resumed.generator_state_dict
    /\ best_iou > Resumed.best_iou

\* C6 as stated: both learning-rate schedules advance exactly one step per
\* epoch, so at the loop head each has been stepped once per epoch this
\* invocation has completed.
CE_C6 ==
    (pc \in {"epoch", "done"} /\ generator_lr_scheduler.made) =>
        /\ generator_lr_scheduler.steps = epoch_idx - init_epoch
        /\ image_encoder_lr_scheduler.steps = epoch_idx - init_epoch

\* batches of BATCH_SIZE samples in the training set: the loader's length had
\* the short final batch not occurred
FullBatches == dataset_size \div cfg.BATCH_SIZE

\* the batch index just handled was a batch of BATCH_SIZE samples
JustTrainedBatch ==
    /\ pc = "batch"
    /\ batch_idx >= 1
    /\ BatchSamples(batch_idx - 1, dataset_size, cfg.BATCH_SIZE) = cfg.BATCH_SIZE

\* C7 as stated: a batch of another size than BATCH_SIZE does not advance the
\* step counter, i.e. every processed batch gets the step key it would get had
\* the skipped batches not occurred.
CE_C7 ==
    JustTrainedBatch => n_itr = StepKey(epoch_idx, FullBatches, batch_idx - 1)

\* C7 amended: for a batch of another size than BATCH_SIZE no optimizer steps,
\* no weights change, no loss is appended, nothing is logged and n_itr is not
\* recomputed; the batch still takes a batch index and counts in the loader
\* length, so every processed batch gets the key
\* epoch_idx * len(loader) + batch_idx, skipped batches included.
Thm_C7 ==
    [][ /\ ( /\ pc = "batch"
             /\ batch_idx < n_batches
             /\ BatchSamples(batch_idx, dataset_size, cfg.BATCH_SIZE) # cfg.BATCH_SIZE )
            => /\ UNCHANGED <<generator, image_encoder, generator_solver,
                              image_encoder_solver, epoch_image_encoder_loss,
                              train_log, n_itr, dirs, pc, epoch_idx>>
               /\ batch_idx' = batch_idx + 1
        /\ JustTrainedBatch' =>
               n_itr' = StepKey(epoch_idx', LoaderLen(dataset_size, cfg.BATCH_SIZE),
                                batch_idx' - 1)
      ]_vars

\* C7 witness: in a later epoch than the first of a run, a short batch has
\* just been skipped after a processed one
Witness_C7 ==
    /\ pc = "batch"
    /\ epoch_idx >= 1
    /\ batch_idx = n_batches
    /\ batch_idx >= 2
    /\ BatchSamples(batch_idx - 1, dataset_size, cfg.BATCH_SIZE) # cfg.BATCH_SIZE
    /\ n_itr = StepKey(epoch_idx, n_batches, batch_idx - 2)

\* C8 as stated: with policy adam or sgd set-up builds both optimizers and
\* goes on to the loop without error; with any other policy it ends in the
\* fatal error before any training.
CE_C8 ==
    /\ cfg.POLICY \in {"adam", "sgd"} =>
          /\ error = "none"
          /\ pc \notin SetUpPositions =>
                /\ generator_solver.kind = cfg.POLICY
                /\ image_encoder_solver.kind = cfg.POLICY
    /\ (cfg.POLICY \notin {"adam", "sgd"} /\ pc \notin SetUpPositions) =>
          /\ pc = "fatal"
          /\ error = "UnknownOptimizer"
          /\ generator_solver.steps = 0

\* C9 as stated: a resumed invocation never applies the weight initialisation
\* to either network; any other applies it once to each before the first batch.
CE_C9 ==
    /\ Resuming => generator.inits = 0 /\ image_encoder.inits = 0
    /\ (~Resuming /\ pc \notin {"data", "writer", "networks"}) =>
          generator.inits = 1 /\ image_encoder.inits = 1

\* C9 amended: every invocation, resumed or not, applies the weight
\* initialisation exactly once to each network, when the networks are built
\* and before the first batch; a resumed invocation then loads the weights of
\* the record over the initialised ones.
Thm_C9 ==
    /\ pc \in {"data", "writer", "networks"} =>
          /\ generator.inits = 0
          /\ image_encoder.inits = 0
          /\ generator_solver.steps = 0
          /\ train_log = <<>>
    /\ pc \notin {"data", "writer", "networks"} =>
          /\ generator.inits = 1
          /\ image_encoder.inits = 1
    /\ (Resuming /\ pc \in {"epoch", "batch", "validate", "save", "done"}) =>
          /\ generator.updates >= Resumed.generator_state_dict
          /\ image_encoder.updates >= Resumed.image_encoder_state_dict

\* C9 witness: a resumed invocation is training on weights loaded from a
\* record that had updates
Witness_C9 ==
    /\ Resuming
    /\ pc = "batch"
    /\ Resumed.generator_state_dict >= 1
    /\ generator.inits = 1
    /\ generator.updates > Resumed.generator_state_dict

\* the number a digit sequence denotes
RECURSIVE DigitsValue(_)
DigitsValue(ds) ==
    IF ds = <<>> THEN 0
    ELSE 10 * DigitsValue(SubSeq(ds, 1, Len(ds) - 1)) + ds[Len(ds)]

\* C10: a periodic epoch writes exactly one record, complete and current, to
\* a file that did not exist and whose name embeds the epoch number; no step
\* removes a file, and only the best file ever has its content replaced.
Thm_C10 ==
    [][ /\ (pc = "save" /\ IsPeriodic(epoch_idx, cfg.SAVE_FREQ)) =>
              LET p == CkptPath(run, PeriodicFileName(epoch_idx + 1))
              IN  /\ p \notin DOMAIN disk
                  /\ p \in DOMAIN disk'
                  /\ p.name.kind = "ckpt-epoch"
                  /\ Len(p.name.digits) >= 4
                  /\ DigitsValue(p.name.digits) = epoch_idx + 1
                  /\ disk'[p] = Record(epoch_idx + 1, generator, generator_solver,
                                       image_encoder, image_encoder_solver,
                                       best_iou, best_epoch)
                  /\ saved' = Append(saved, p.name)
                  /\ DOMAIN disk' = DOMAIN disk \cup {p}
        /\ \A q \in DOMAIN disk :
              /\ q \in DOMAIN disk'
              /\ disk'[q] # disk[q] => q.name = BestFileName
      ]_vars

\* C10 witness: a run holds two periodic files and a best file written twice
Witness_C10 ==
    /\ \E i, j \in 1..Len(saved) :
          i # j /\ saved[i].kind = "ckpt-epoch" /\ saved[j].kind = "ckpt-epoch"
    /\ \E i, j \in 1..Len(saved) :
          i # j /\ saved[i] = BestFileName /\ saved[j] = BestFileName

\* C11: the step key given to the training metrics sink is
\* epoch_idx * len(loader) + batch_idx, the loader length counting a short
\* final batch, and within an invocation every processed batch gets a key
\* strictly above the key of the processed batch before it, also across an
\* epoch boundary.
Thm_C11 ==
    [][ (pc = "batch" /\ pc' = "batch" /\ train_log' # train_log) =>
            /\ n_itr' > n_itr
            /\ n_itr' = epoch_idx * LoaderLen(dataset_size, cfg.BATCH_SIZE) + batch_idx
            /\ train_log'[Len(train_log) + 1] = <<"Generator/ImageEncoderLoss", n_itr'>>
      ]_vars

\* C11 witness: the first batch of a later epoch has been processed, the epoch
\* before having ended in a processed batch followed by a skipped short one
Witness_C11 ==
    /\ JustTrainedBatch
    /\ epoch_idx > init_epoch
    /\ batch_idx = 1
    /\ FullBatches >= 1
    /\ dataset_size % cfg.BATCH_SIZE # 0
    /\ n_itr = epoch_idx * (FullBatches + 1)

\* C12: on an epoch that is not periodic, a score strictly above best_iou
\* becomes best_iou, best_epoch becomes the epoch's number and the single best
\* file is written with a record carrying the new values; a score equal to or
\* below best_iou writes nothing and leaves best_iou and best_epoch alone.
Thm_C12 ==
    [][ (pc = "save" /\ (epoch_idx + 1) % cfg.SAVE_FREQ # 0) =>
            LET bp == CkptPath(run, BestFileName)
            IN  IF iou > best_iou
                THEN /\ best_iou' = iou
                     /\ best_epoch' = epoch_idx + 1
                     /\ saved' = Append(saved, BestFileName)
                     /\ DOMAIN disk' = DOMAIN disk \cup {bp}
                     /\ disk'[bp] = Record(epoch_idx + 1, generator, generator_solver,
                                           image_encoder, image_encoder_solver,
                                           iou, epoch_idx + 1)
                     /\ \A q \in DOMAIN disk : q # bp => disk'[q] = disk[q]
                ELSE /\ best_iou' = best_iou
                     /\ best_epoch' = best_epoch
                     /\ saved' = saved
                     /\ disk' = disk
      ]_vars

\* C12 witness: after the best file was written twice, an epoch that is not
\* periodic has ended with a score equal to best_iou and best_epoch still
\* names an earlier epoch
Witness_C12 ==
    /\ JustFinishedEpoch
    /\ (epoch_idx % cfg.SAVE_FREQ) # 0
    /\ iou = best_iou
    /\ best_epoch < epoch_idx
    /\ \E i, j \in 1..Len(saved) :
          i # j /\ saved[i] = BestFileName /\ saved[j] = BestFileName

\* how many calls in a writer's log carry the tag
CountTag(log, tag) == Cardinality({i \in 1..Len(log) : log[i][1] = tag})

\* epochs this invocation has completed, in a state at the loop head
EpochsDone == epoch_idx - init_epoch

\* C13: in every epoch all batches come first, then the mean-loss log, then
\* one call of the validation routine, then the checkpoint decision on the
\* score of that call; each happens once per epoch, also in an epoch whose
\* batches were all skipped.
Thm_C13 ==
    /\ pc \in {"epoch", "batch", "done"} =>
          /\ CountTag(train_log, "Generator/MeanLoss") = EpochsDone
          /\ Len(val_log) = EpochsDone
    /\ pc = "validate" =>
          /\ batch_idx = n_batches
          /\ Len(epoch_image_encoder_loss) = FullBatches
          /\ train_log[Len(train_log)] = <<"Generator/MeanLoss", epoch_idx + 1>>
          /\ CountTag(train_log, "Generator/MeanLoss") = EpochsDone + 1
          /\ Len(val_log) = EpochsDone
    /\ pc = "save" =>
          /\ batch_idx = n_batches
          /\ train_log[Len(train_log)] = <<"Generator/MeanLoss", epoch_idx + 1>>
          /\ CountTag(train_log, "Generator/MeanLoss") = EpochsDone + 1
          /\ Len(val_log) = EpochsDone + 1
          /\ val_log[Len(val_log)] = epoch_idx + 1
          /\ iou = val_score[epoch_idx]

\* C13 witness: a later epoch whose only batch was skipped has been validated
\* and is at its checkpoint decision
Witness_C13 ==
    /\ pc = "save"
    /\ epoch_idx > init_epoch
    /\ n_batches >= 1
    /\ epoch_image_encoder_loss = <<>>
    /\ Len(val_log) = EpochsDone + 1

\* train_net under the scheduling of a single thread that keeps running
FairSpec == Spec /\ WF_vars(Next)

\* what the loop of this invocation has done at the current position
LoopRecord ==
    /\ val_log = [i \in 1..Len(val_log) |-> init_epoch + i]
    /\ pc \in {"epoch", "batch", "validate", "save"} =>
          /\ train_writer = "open"
          /\ val_writer = "open"
          /\ epoch_idx >= init_epoch
    /\ pc = "done" =>
          /\ train_writer = "closed"
          /\ val_writer = "closed"
          /\ IF init_epoch >= cfg.NUM_EPOCHES
             THEN val_log = <<>> /\ saved = <<>> /\ generator.training = FALSE
             ELSE Len(val_log) = cfg.NUM_EPOCHES - init_epoch

\* C14: the loop runs the epoch indices init_epoch .. NUM_EPOCHES - 1 once
\* each in ascending order and then ends with both summary writers closed;
\* with init_epoch >= NUM_EPOCHES no epoch runs, validation is not called and
\* no checkpoint is written.
Thm_C14 == []LoopRecord /\ ((pc = "epoch") ~> (pc = "done"))

\* C14 witness: an invocation resumed from the checkpoint of the final epoch
\* has ended without running an epoch
Witness_C14 ==
    /\ pc = "done"
    /\ Resuming
    /\ init_epoch = cfg.NUM_EPOCHES
    /\ init_epoch >= 2
    /\ val_log = <<>>
    /\ saved = <<>>

\* optimizer steps already in the state this invocation started from
LoadedSteps(field) ==
    IF Resuming /\ pc \notin {"data", "writer", "networks", "solver", "load", "fatal"}
    THEN Resumed[field].steps
    ELSE 0

\* C15: every processed batch steps both optimizers exactly once, so at any
\* time the two optimizers have performed the same number of steps in this
\* invocation, one per processed batch (one per loss value logged), and as
\* many as each network has had weight updates.
Thm_C15 ==
    LET processed == CountTag(train_log, "Generator/ImageEncoderLoss")
    IN  /\ generator_solver.steps - LoadedSteps("generator_solver_state_dict") = processed
        /\ image_encoder_solver.steps
              - LoadedSteps("image_encoder_solver_state_dict") = processed
        /\ generator_solver.steps = image_encoder_solver.steps
        /\ generator.updates = generator_solver.steps
        /\ image_encoder.updates = image_encoder_solver.steps

\* C15 witness: a resumed invocation has processed three batches on top of
\* the steps of its record
Witness_C15 ==
    /\ Resuming
    /\ pc = "batch"
    /\ Resumed.generator_solver_state_dict.steps >= 1
    /\ CountTag(train_log, "Generator/ImageEncoderLoss") = 3
    /\ image_encoder_solver.steps = Resumed.image_encoder_solver_state_dict.steps + 3

\* C16: the step after the optimizers are built restores the session from the
\* checkpoint exactly when a weights path is configured and the resume flag is
\* set: init_epoch, best_iou and best_epoch become the record's values and
\* both networks and both optimizers are loaded from it; in every other case
\* the run starts at epoch 0 with best_iou = best_epoch = -1 and networks and
\* optimizers as set-up left them.
Thm_C16 ==
    [][ pc = "load" =>
          IF cfg.WEIGHTS # NoWeights /\ cfg.RESUME_TRAIN
          THEN LET rec == disk[cfg.WEIGHTS]
               IN  /\ rec.epoch_idx >= 1
                   /\ init_epoch' = rec.epoch_idx
                   /\ epoch_idx' = rec.epoch_idx
                   /\ best_iou' = rec.best_iou
                   /\ best_epoch' = rec.best_epoch
                   /\ generator'.updates = rec.generator_state_dict
                   /\ image_encoder'.updates = rec.image_encoder_state_dict
                   /\ generator_solver' = rec.generator_solver_state_dict
                   /\ image_encoder_solver' = rec.image_encoder_solver_state_dict
          ELSE /\ init_epoch' = 0
               /\ epoch_idx' = 0
               /\ best_iou' = -1
               /\ best_epoch' = -1
               /\ UNCHANGED <<generator, image_encoder, generator_solver,
                              image_encoder_solver>>
               /\ generator.updates = 0
               /\ generator_solver.steps = 0
      ]_vars

\* C16 witness: a weights path naming a record with a best score and updates
\* is configured without the resume flag, and the run has started from scratch
Witness_C16 ==
    /\ cfg.WEIGHTS # NoWeights
    /\ ~cfg.RESUME_TRAIN
    /\ pc = "epoch"
    /\ disk[cfg.WEIGHTS].best_iou >= 0
    /\ disk[cfg.WEIGHTS].generator_state_dict >= 1
    /\ init_epoch = 0
    /\ best_iou = -1
    /\ generator.updates = 0

\* n_views as set-up fixed it
ViewsFixed ==
    /\ n_views \in 1..cfg.N_VIEWS
    /\ ~cfg.RANDOM_NUM_VIEWS => n_views = cfg.N_VIEWS
    /\ datasets.train = n_views
    /\ datasets.val = n_views

\* C17: once the data loaders are set up, n_views is an integer in
\* 1..N_VIEWS, equal to N_VIEWS unless the random number of views is enabled,
\* the training and the validation dataset were built with that same value,
\* and no later step of the invocation changes it.
Thm_C17 ==
    [][ /\ pc' # "data" => ViewsFixed'
        /\ (pc # "data" /\ run' = run) => UNCHANGED <<n_views, datasets>>
      ]_vars

\* C17 witness: with the random number of views enabled the draw was below
\* N_VIEWS and training is in the second batch of a later epoch
Witness_C17 ==
    /\ cfg.RANDOM_NUM_VIEWS
    /\ n_views < cfg.N_VIEWS
    /\ ViewsFixed
    /\ JustTrainedBatch
    /\ batch_idx >= 2
    /\ epoch_idx > init_epoch

\* what a resumed invocation has run, on top of what its record holds
ResumedCoverage ==
    (Resuming /\ pc \in {"epoch", "batch", "validate", "save", "done"}) =>
        /\ init_epoch = Resumed.epoch_idx
        /\ init_epoch >= 1
        /\ Resumed.generator_state_dict = init_epoch * FullBatches
        /\ val_log = [i \in 1..Len(val_log) |-> init_epoch + i]
        /\ pc = "done" =>
              /\ init_epoch + Len(val_log) = cfg.NUM_EPOCHES
              /\ generator.updates = cfg.NUM_EPOCHES * FullBatches
              /\ image_encoder.updates = cfg.NUM_EPOCHES * FullBatches

\* C18: every record written at the end of the epoch with loop index e,
\* periodic or best, stores e + 1 as its epoch field; an invocation resumed
\* from it starts its loop at index e + 1, the record holding the training of
\* the indices 0..e, and ends having run e + 1 .. NUM_EPOCHES - 1: every
\* epoch index below the total is trained on exactly once, none twice and
\* none left out.
Thm_C18 ==
    [][ /\ pc = "save" =>
              \A p \in DOMAIN disk' :
                  (p \notin DOMAIN disk \/ disk'[p] # disk[p]) =>
                      disk'[p].epoch_idx = epoch_idx + 1
        /\ ResumedCoverage'
      ]_vars

\* C18 witness: an invocation resumed from a best file written before the
\* last two epochs has ended after running them
Witness_C18 ==
    /\ pc = "done"
    /\ Resuming
    /\ cfg.WEIGHTS.name = BestFileName
    /\ init_epoch >= 1
    /\ init_epoch + 2 <= cfg.NUM_EPOCHES
    /\ FullBatches >= 1
    /\ Len(val_log) >= 2

\* the best file of this invocation
BestPath == CkptPath(run, BestFileName)

\* C19: whenever this invocation has written its best file, the record in it
\* carries the best_iou and best_epoch now in memory and its epoch field is
\* best_epoch; and once the loop has started, best_iou and best_epoch change
\* only in the checkpoint decision of an epoch that rewrites the best file
\* with the new values. (The restore from a record during set-up is no epoch.)
Thm_C19 ==
    [][ /\ BestPath' \in DOMAIN disk' =>
              /\ disk'[BestPath'].best_iou = best_iou'
              /\ disk'[BestPath'].best_epoch = best_epoch'
              /\ disk'[BestPath'].epoch_idx = best_epoch'
        /\ ( /\ run' = run
             /\ pc # "load"
             /\ (best_iou' # best_iou \/ best_epoch' # best_epoch) )
            => /\ pc = "save"
               /\ saved' = Append(saved, BestFileName)
               /\ BestPath \in DOMAIN disk'
               /\ disk'[BestPath] # (IF BestPath \in DOMAIN disk
                                     THEN disk[BestPath] ELSE <<>>)
      ]_vars

\* C19 witness: a resumed invocation has written its own best file, above the
\* best score of its record, and has since finished a further epoch
Witness_C19 ==
    /\ Resuming
    /\ JustFinishedEpoch
    /\ BestPath \in DOMAIN disk
    /\ disk[BestPath].best_iou > Resumed.best_iou
    /\ Resumed.best_iou >= 0
    /\ best_epoch < epoch_idx

\* C20: in an invocation that does not resume, with scores in [0, 1]: if
\* SAVE_FREQ > 1 the first epoch sets best_iou to its score and best_epoch to
\* 1 and writes the best file as the first checkpoint of the run; if
\* SAVE_FREQ = 1 every epoch writes its periodic file only, best_iou and
\* best_epoch stay -1 to the end and the best file is never written.
Thm_C20 ==
    ~Resuming =>
        /\ (cfg.SAVE_FREQ > 1 /\ pc = "epoch" /\ epoch_idx = 1) =>
              /\ best_iou = val_score[0]
              /\ best_epoch = 1
              /\ saved = <<BestFileName>>
              /\ disk[BestPath].best_iou = val_score[0]
        /\ (cfg.SAVE_FREQ > 1 /\ epoch_idx >= 1) =>
              /\ best_iou >= val_score[0]
              /\ best_epoch >= 1
              /\ saved[1] = BestFileName
        /\ cfg.SAVE_FREQ = 1 =>
              /\ best_iou = -1
              /\ best_epoch = -1
              /\ BestPath \notin DOMAIN disk
              /\ \A i \in 1..Len(saved) : saved[i] = PeriodicFileName(i)
              /\ pc \in {"epoch", "done"} => Len(saved) = epoch_idx

\* C20 witness: with SAVE_FREQ = 1 a run of several epochs that does not
\* resume has ended, its last score the highest possible, best_iou still -1
Witness_C20 ==
    /\ ~Resuming
    /\ cfg.SAVE_FREQ = 1
    /\ pc = "done"
    /\ epoch_idx >= 3
    /\ iou = 1
    /\ best_iou = -1
    /\ Len(saved) = epoch_idx
====
